---------------------------- MODULE Spec2Model ----------------------------
(***************************************************************************)
(* Model of app/adapters/async_web3_adapter.py:                            *)
(*   - AsyncWeb3Adapter.get_instance: the class-level registry _instances  *)
(*     guarded by the class-level asyncio.Lock _lock;                      *)
(*   - retry_web3(max_seconds).wrapper: the retry loop around a method of  *)
(*     the adapter (ensure_connection, get_latest_block).                  *)
(* The registry is checked under SpecRegistry, the retry loop under        *)
(* SpecRetry.                                                              *)
(***************************************************************************)
EXTENDS Integers, Sequences, FiniteSets

(***************************************************************************)
(* Bounds of the model.                                                    *)
(***************************************************************************)
NumCallers == 2
MaxCalls == 4
MaxSeconds == 3
MaxDuration == 1
MaxStart == 1

(***************************************************************************)
(* Program constants.                                                      *)
(***************************************************************************)
DefaultRequestTimeout == 10
Backoff == 1

Callers == 1..NumCallers
RpcUrls == {"http://a", "http://b"}
RequestTimeouts == {DefaultRequestTimeout, 20}

NoCaller == 0
NoHandle == 0

VARIABLES
    \* ---- registry (class attributes and the heap of adapter objects)
    _instances,      \* cls._instances: rpc_url -> handle (NoHandle: key absent)
    _lock,           \* cls._lock: NoCaller when free, else the coroutine holding it
    handles,         \* the adapter objects constructed so far, by identity 1..Len
    clients,         \* rpc_url -> number of AsyncWeb3 clients constructed for it
    \* ---- one get_instance coroutine per caller
    pc,              \* position of the caller's get_instance call
    rpc_url,         \* argument rpc_url
    request_timeout, \* argument request_timeout
    instance,        \* local variable instance (line 90)
    result,          \* handle returned to the caller
    error,           \* exception propagated to the caller ("" when none)
    \* ---- history
    calls,           \* number of get_instance calls made so far
    returned,        \* set of <<rpc_url, handle>> ever returned by get_instance
    failed,          \* rpc_url -> number of constructions that raised
    raced,           \* rpc_urls requested by two calls in flight before the url was registered
    \* ---- one call of a method decorated with retry_web3(max_seconds)
    now,             \* time.time(), in seconds
    wpc,             \* position of the wrapper coroutine
    self,            \* the adapter the method is called on
    method,          \* the decorated method (func)
    max_seconds,     \* the decorator's parameter
    start,           \* local variable start
    attempt,         \* local variable attempt
    elapsed,         \* local variable elapsed
    remaining,       \* local variable remaining
    value,           \* value returned to the caller ("" when none)
    propagated,      \* exception propagated to the caller (NoExc when none)
    log,             \* lines the wrapper and the method wrote to logger, in order
    \* ---- history
    hist             \* what each execution of func did, how long it took, when it ended

regVars == <<_instances, _lock, handles, clients, pc, rpc_url, request_timeout,
             instance, result, error, calls, returned, failed, raced>>

retryVars == <<now, wpc, self, method, max_seconds, start, attempt, elapsed,
               remaining, value, propagated, log, hist>>

vars == <<regVars, retryVars>>

\* The body of "async with cls._lock" holds no await, so asyncio runs it in one
\* piece; the model takes it in three steps (check, construct, insert), which
\* allows every interleaving asyncio allows and more, all guarded by the lock.
InSection(p) == pc[p] \in {"check", "construct", "insert"}
InFlight(p) == pc[p] \in {"acquire", "check", "construct", "insert"}

InitRegistry ==
    /\ _instances = [u \in RpcUrls |-> NoHandle]
    /\ _lock = NoCaller
    /\ handles = << >>
    /\ clients = [u \in RpcUrls |-> 0]
    /\ pc = [p \in Callers |-> "idle"]
    /\ rpc_url = [p \in Callers |-> "http://a"]
    /\ request_timeout = [p \in Callers |-> DefaultRequestTimeout]
    /\ instance = [p \in Callers |-> NoHandle]
    /\ result = [p \in Callers |-> NoHandle]
    /\ error = [p \in Callers |-> ""]
    /\ calls = 0
    /\ returned = {}
    /\ failed = [u \in RpcUrls |-> 0]
    /\ raced = {}

\* A caller invokes AsyncWeb3Adapter.get_instance(url, t).
Call(p) ==
    /\ pc[p] = "idle"
    /\ calls < MaxCalls
    /\ \E url \in RpcUrls, t \in RequestTimeouts :
        /\ rpc_url' = [rpc_url EXCEPT ![p] = url]
        /\ request_timeout' = [request_timeout EXCEPT ![p] = t]
        /\ raced' = IF /\ _instances[url] = NoHandle
                       /\ \E q \in Callers \ {p} : InFlight(q) /\ rpc_url[q] = url
                    THEN raced \cup {url} ELSE raced
    /\ pc' = [pc EXCEPT ![p] = "acquire"]
    /\ calls' = calls + 1
    /\ UNCHANGED <<_instances, _lock, handles, clients, instance, result, error,
                   returned, failed,
                   retryVars>>

\* Variant of Acquire that enters the block without waiting for the lock.
AcquireNoWait(p) ==
    /\ pc[p] = "acquire"
    /\ _lock' = p
    /\ pc' = [pc EXCEPT ![p] = "check"]
    /\ UNCHANGED <<_instances, handles, clients, rpc_url, request_timeout, instance,
                   result, error, calls, returned, failed, raced,
                   retryVars>>

\* async with cls._lock: entry. The coroutine is suspended until the lock is free.
Acquire(p) ==
    /\ pc[p] = "acquire"
    /\ _lock = NoCaller
    /\ _lock' = p
    /\ pc' = [pc EXCEPT ![p] = "check"]
    /\ UNCHANGED <<_instances, handles, clients, rpc_url, request_timeout, instance,
                   result, error, calls, returned, failed, raced,
                   retryVars>>

\* Variant of CheckHit that stores the call's request_timeout in the cached adapter.
CheckHitRebuild(p) ==
    /\ pc[p] = "check"
    /\ _instances[rpc_url[p]] # NoHandle
    /\ handles' = [handles EXCEPT ![_instances[rpc_url[p]]].request_timeout =
                                                               request_timeout[p]]
    /\ result' = [result EXCEPT ![p] = _instances[rpc_url[p]]]
    /\ returned' = returned \cup {<<rpc_url[p], _instances[rpc_url[p]]>>}
    /\ _lock' = NoCaller
    /\ pc' = [pc EXCEPT ![p] = "done"]
    /\ UNCHANGED <<_instances, clients, rpc_url, request_timeout, instance,
                   error, calls, failed, raced,
                   retryVars>>

\* if rpc_url in cls._instances: return cls._instances[rpc_url]
\* (leaving the async with block releases the lock).
CheckHit(p) ==
    /\ pc[p] = "check"
    /\ _instances[rpc_url[p]] # NoHandle
    /\ result' = [result EXCEPT ![p] = _instances[rpc_url[p]]]
    /\ returned' = returned \cup {<<rpc_url[p], _instances[rpc_url[p]]>>}
    /\ _lock' = NoCaller
    /\ pc' = [pc EXCEPT ![p] = "done"]
    /\ UNCHANGED <<_instances, handles, clients, rpc_url, request_timeout, instance,
                   error, calls, failed, raced,
                   retryVars>>

\* rpc_url not in cls._instances: fall through to the construction.
CheckMiss(p) ==
    /\ pc[p] = "check"
    /\ _instances[rpc_url[p]] = NoHandle
    /\ pc' = [pc EXCEPT ![p] = "construct"]
    /\ UNCHANGED <<_instances, _lock, handles, clients, rpc_url, request_timeout,
                   instance, result, error, calls, returned, failed, raced,
                   retryVars>>

\* instance = cls(rpc_url=..., request_timeout=..., _internal=True) succeeds:
\* __init__ stores rpc_url and request_timeout and the client made by
\* _create_client.
ConstructOk(p) ==
    /\ pc[p] = "construct"
    /\ handles' = Append(handles, [rpc_url |-> rpc_url[p],
                                   request_timeout |-> request_timeout[p],
                                   w3 |-> <<rpc_url[p], clients[rpc_url[p]] + 1>>])
    /\ clients' = [clients EXCEPT ![rpc_url[p]] = @ + 1]
    /\ instance' = [instance EXCEPT ![p] = Len(handles) + 1]
    /\ pc' = [pc EXCEPT ![p] = "insert"]
    /\ UNCHANGED <<_instances, _lock, rpc_url, request_timeout, result, error,
                   calls, returned, failed, raced,
                   retryVars>>

\* Variant of ConstructRaises in which the exception does not release the lock.
ConstructRaisesKeepsLock(p) ==
    /\ pc[p] = "construct"
    /\ error' = [error EXCEPT ![p] = "ConstructionError"]
    /\ failed' = [failed EXCEPT ![rpc_url[p]] = @ + 1]
    /\ pc' = [pc EXCEPT ![p] = "raised"]
    /\ UNCHANGED <<_instances, _lock, handles, clients, rpc_url, request_timeout,
                   instance, result, calls, returned, raced,
                   retryVars>>

\* The construction raises (AsyncWeb3(...) or middleware_onion.inject in
\* _create_client): the exception leaves the async with block, which releases
\* the lock, and reaches the caller; nothing was stored.
ConstructRaises(p) ==
    /\ pc[p] = "construct"
    /\ error' = [error EXCEPT ![p] = "ConstructionError"]
    /\ failed' = [failed EXCEPT ![rpc_url[p]] = @ + 1]
    /\ _lock' = NoCaller
    /\ pc' = [pc EXCEPT ![p] = "raised"]
    /\ UNCHANGED <<_instances, handles, clients, rpc_url, request_timeout,
                   instance, result, calls, returned, raced,
                   retryVars>>

\* cls._instances[rpc_url] = instance; return instance (releases the lock).
Insert(p) ==
    /\ pc[p] = "insert"
    /\ _instances' = [_instances EXCEPT ![rpc_url[p]] = instance[p]]
    /\ result' = [result EXCEPT ![p] = instance[p]]
    /\ returned' = returned \cup {<<rpc_url[p], instance[p]>>}
    /\ _lock' = NoCaller
    /\ pc' = [pc EXCEPT ![p] = "done"]
    /\ UNCHANGED <<handles, clients, rpc_url, request_timeout, instance, error,
                   calls, failed, raced,
                   retryVars>>

\* The caller has received the handle or the exception; it may call again.
Finish(p) ==
    /\ pc[p] \in {"done", "raised"}
    /\ pc' = [pc EXCEPT ![p] = "idle"]
    /\ instance' = [instance EXCEPT ![p] = NoHandle]
    /\ result' = [result EXCEPT ![p] = NoHandle]
    /\ error' = [error EXCEPT ![p] = ""]
    /\ rpc_url' = [rpc_url EXCEPT ![p] = "http://a"]
    /\ request_timeout' = [request_timeout EXCEPT ![p] = DefaultRequestTimeout]
    /\ UNCHANGED <<_instances, _lock, handles, clients, calls, returned, failed, raced,
                   retryVars>>

NextRegistry ==
    \E p \in Callers :
        \/ Call(p)
        \/ Acquire(p)
        \/ CheckHit(p)
        \/ CheckMiss(p)
        \/ ConstructOk(p)
        \/ ConstructRaises(p)
        \/ Insert(p)
        \/ Finish(p)

(***************************************************************************)
(* retry_web3(max_seconds): the wrapper around a method of the adapter.    *)
(***************************************************************************)
TransientErrors ==
    {"ProviderConnectionError", "TimeExhausted", "BlockNotFound", "TransactionNotFound"}
FatalErrors == {"ValueError"}
Methods == {"ensure_connection", "get_latest_block"}
Durations == 0..MaxDuration
\* max_seconds is the decorator's parameter (30 where the module applies it).
Budgets == 0..MaxSeconds

NoExc == [type |-> "", msg |-> "", n |-> 0]

\* An adapter object as __init__ leaves it.
Adapter(url, t) == [rpc_url |-> url, request_timeout |-> t, w3 |-> <<url, 1>>]

\* What the awaited call on self.w3 can do: w3.is_connected() yields a boolean,
\* w3.eth.block_number a block number, and either may raise.
W3Call(m) ==
    {[raises |-> FALSE, type |-> "", value |-> v] :
        v \in IF m = "ensure_connection" THEN {"True", "False"} ELSE {"100"}}
    \cup {[raises |-> TRUE, type |-> k, value |-> ""] : k \in TransientErrors \cup FatalErrors}

InfoLine(url, text, v) ==
    [level |-> "info", text |-> text, rpc_url |-> url, attempt |-> 0, exc_type |-> "",
     exc_msg |-> "", remaining |-> 0, max_seconds |-> 0, block |-> v,
     carries |-> IF v = "" THEN {"rpc_url"} ELSE {"rpc_url", "block"}]

\* Variant of Func in which ensure_connection returns what is_connected() gave
\* instead of raising when it is False.
FuncReturnsOk(m, w, n, url) ==
    IF w.raises
    THEN [raises |-> TRUE, exc |-> [type |-> w.type, msg |-> "rpc", n |-> n],
          value |-> "", lines |-> << >>]
    ELSE IF m = "ensure_connection"
    THEN [raises |-> FALSE, exc |-> NoExc, value |-> w.value,
          lines |-> <<InfoLine(url, "Connection OK", "")>>]
    ELSE [raises |-> FALSE, exc |-> NoExc, value |-> w.value,
          lines |-> <<InfoLine(url, "Latest block", w.value)>>]

\* The body of the decorated method, given what the w3 call did on attempt n:
\* the exception it raises or the value it returns, and the lines it logs.
Func(m, w, n, url) ==
    IF w.raises
    THEN [raises |-> TRUE, exc |-> [type |-> w.type, msg |-> "rpc", n |-> n],
          value |-> "", lines |-> << >>]
    ELSE IF m = "ensure_connection"
    THEN IF w.value = "False"
         THEN [raises |-> TRUE,
               exc |-> [type |-> "ProviderConnectionError",
                        msg |-> "is_connected() returned False", n |-> n],
               value |-> "", lines |-> << >>]
         ELSE [raises |-> FALSE, exc |-> NoExc, value |-> "True",
               lines |-> <<InfoLine(url, "Connection OK", "")>>]
    ELSE [raises |-> FALSE, exc |-> NoExc, value |-> w.value,
          lines |-> <<InfoLine(url, "Latest block", w.value)>>]

\* Variant of IsTransient that takes every exception for a retryable one.
IsTransientAny(type) == TRUE

\* except (ProviderConnectionError, TimeExhausted, BlockNotFound, TransactionNotFound)
IsTransient(type) == type \in TransientErrors

\* elapsed = time.time() - start
Elapsed(t, st) == t - st

\* remaining = max_seconds - elapsed
Remaining(budget, el) == budget - el

\* Variants of GiveUp: retrying once more at remaining = 0, and giving up when
\* no more than one backoff is left.
GiveUpStrict(rem) == rem < 0

GiveUpEarly(rem) == rem <= Backoff

\* if remaining <= 0
GiveUp(rem) == rem <= 0

\* Variant of Raise that raises a made-up timeout error instead of exc.
RaiseTimeout(exc) == [type |-> "TimeoutError", msg |-> "retry timeout exceeded", n |-> 0]

\* raise exc
Raise(exc) == exc

\* logger.warning("[RPC: ..] Web3 error on attempt #..: <type> - <exc>. Retrying... time left: ..s")
RetryLine(url, n, exc, rem) ==
    [level |-> "warning", text |-> "Web3 error. Retrying", rpc_url |-> url, attempt |-> n,
     exc_type |-> exc.type, exc_msg |-> exc.msg, remaining |-> rem, max_seconds |-> 0,
     block |-> "",
     carries |-> {"rpc_url", "attempt", "exc_type", "exc_msg", "remaining"}]

\* logger.error("[RPC: ..] Retry timeout exceeded (..s). Raising error.")
TimeoutLine(url, budget) ==
    [level |-> "error", text |-> "Retry timeout exceeded", rpc_url |-> url, attempt |-> 0,
     exc_type |-> "", exc_msg |-> "", remaining |-> 0, max_seconds |-> budget,
     block |-> "",
     carries |-> {"rpc_url", "max_seconds"}]

\* logger.error("[RPC: ..] Non-Web3 error: <type> - <exc>")
FatalLine(url, exc) ==
    [level |-> "error", text |-> "Non-Web3 error", rpc_url |-> url, attempt |-> 0,
     exc_type |-> exc.type, exc_msg |-> exc.msg, remaining |-> 0, max_seconds |-> 0,
     block |-> "",
     carries |-> {"rpc_url", "exc_type", "exc_msg"}]

\* No decorated method has been called.
InitIdle ==
    /\ wpc = "idle"
    /\ method = "ensure_connection"
    /\ max_seconds = 0
    /\ start = 0
    /\ attempt = 0
    /\ elapsed = 0
    /\ remaining = 0
    /\ value = ""
    /\ propagated = NoExc
    /\ log = << >>
    /\ hist = << >>

InitRetry ==
    /\ InitRegistry
    /\ InitIdle
    /\ now \in 0..MaxStart
    /\ self \in {Adapter(u, DefaultRequestTimeout) : u \in RpcUrls}

\* A decorated method is called: start = time.time(); attempt = 1.
Invoke ==
    /\ wpc = "idle"
    /\ \E m \in Methods, b \in Budgets :
        /\ method' = m
        /\ max_seconds' = b
    /\ start' = now
    /\ attempt' = 1
    /\ wpc' = "attempting"
    /\ UNCHANGED <<now, self, elapsed, remaining, value, propagated, log, hist, regVars>>

\* return await func(self, *args, **kwargs): func returns.
AttemptReturns ==
    /\ wpc = "attempting"
    /\ \E d \in Durations, w \in W3Call(method) :
        LET r == Func(method, w, attempt, self.rpc_url) IN
        /\ ~r.raises
        /\ now' = now + d
        /\ value' = r.value
        /\ log' = log \o r.lines
        /\ hist' = Append(hist, [raises |-> FALSE, exc |-> NoExc, value |-> r.value,
                              dur |-> d, at |-> now + d])
    /\ wpc' = "returned"
    /\ UNCHANGED <<self, method, max_seconds, start, attempt, elapsed, remaining,
                   propagated, regVars>>

\* func raises one of the four web3 exceptions: lines 46-58, up to the raise or
\* to the await of asyncio.sleep.
AttemptTransient ==
    /\ wpc = "attempting"
    /\ \E d \in Durations, w \in W3Call(method) :
        LET r == Func(method, w, attempt, self.rpc_url)
            el == Elapsed(now + d, start)
            rem == Remaining(max_seconds, el)
        IN
        /\ r.raises
        /\ IsTransient(r.exc.type)
        /\ now' = now + d
        /\ elapsed' = el
        /\ remaining' = rem
        /\ hist' = Append(hist, [raises |-> TRUE, exc |-> r.exc, value |-> "",
                              dur |-> d, at |-> now + d])
        /\ IF GiveUp(rem)
           THEN /\ log' = log \o <<RetryLine(self.rpc_url, attempt, r.exc, rem),
                                   TimeoutLine(self.rpc_url, max_seconds)>>
                /\ propagated' = Raise(r.exc)
                /\ wpc' = "exhausted"
           ELSE /\ log' = Append(log, RetryLine(self.rpc_url, attempt, r.exc, rem))
                /\ propagated' = propagated
                /\ wpc' = "sleeping"
    /\ UNCHANGED <<self, method, max_seconds, start, attempt, value, regVars>>

\* func raises any other Exception: lines 63-67.
AttemptFatal ==
    /\ wpc = "attempting"
    /\ \E d \in Durations, w \in W3Call(method) :
        LET r == Func(method, w, attempt, self.rpc_url) IN
        /\ r.raises
        /\ ~IsTransient(r.exc.type)
        /\ now' = now + d
        /\ hist' = Append(hist, [raises |-> TRUE, exc |-> r.exc, value |-> "",
                              dur |-> d, at |-> now + d])
        /\ log' = Append(log, FatalLine(self.rpc_url, r.exc))
        /\ propagated' = r.exc
    /\ wpc' = "fatal"
    /\ UNCHANGED <<self, method, max_seconds, start, attempt, elapsed, remaining,
                   value, regVars>>

\* Variant of BackoffSleep that leaves attempt as it is.
BackoffSleepNoIncrement ==
    /\ wpc = "sleeping"
    /\ now' = now + Backoff
    /\ wpc' = "attempting"
    /\ UNCHANGED <<self, method, max_seconds, start, attempt, elapsed, remaining, value,
                   propagated, log, hist, regVars>>

\* await asyncio.sleep(1); attempt += 1; back to the top of the loop.
BackoffSleep ==
    /\ wpc = "sleeping"
    /\ now' = now + Backoff
    /\ attempt' = attempt + 1
    /\ wpc' = "attempting"
    /\ UNCHANGED <<self, method, max_seconds, start, elapsed, remaining, value,
                   propagated, log, hist, regVars>>

NextRetry ==
    \/ Invoke
    \/ AttemptReturns
    \/ AttemptTransient
    \/ AttemptFatal
    \/ BackoffSleep

(***************************************************************************)
(* Specifications.                                                         *)
(***************************************************************************)
InitRegistryIdle ==
    /\ InitRegistry
    /\ InitIdle
    /\ now = 0
    /\ self = Adapter("http://a", DefaultRequestTimeout)

SpecRegistry == InitRegistryIdle /\ [][NextRegistry]_vars

SpecRetry == InitRetry /\ [][NextRetry]_vars

(***************************************************************************)
(* Properties of the registry, checked under SpecRegistry.                 *)
(***************************************************************************)
HandlesReturnedFor(u) == {h \in 1..Len(handles) : <<u, h>> \in returned}

\* C1: however the get_instance calls for one rpc_url interleave, every call
\* returns the same handle, at most one client is ever constructed for the url
\* (exactly one once a call has returned), no two adapter objects exist for one
\* url, and at most one coroutine is between acquiring the lock and leaving
\* the block.
C1_Singleton ==
    /\ \A u \in RpcUrls :
        /\ Cardinality(HandlesReturnedFor(u)) <= 1
        /\ clients[u] <= 1
        /\ HandlesReturnedFor(u) # {} => clients[u] = 1
        /\ \A h \in HandlesReturnedFor(u) :
            /\ handles[h].rpc_url = u
            /\ _instances[u] = h
    /\ \A h1, h2 \in 1..Len(handles) :
        handles[h1].rpc_url = handles[h2].rpc_url => h1 = h2
    /\ \A p, q \in Callers : InSection(p) /\ InSection(q) => p = q
    /\ \A p \in Callers : InSection(p) => _lock = p

\* Two calls for a url not yet registered were in flight together, and both
\* have returned the one handle.
C1_Witness ==
    \E p, q \in Callers :
        /\ p # q
        /\ pc[p] = "done" /\ pc[q] = "done"
        /\ rpc_url[p] = rpc_url[q]
        /\ rpc_url[p] \in raced
        /\ result[p] # NoHandle
        /\ result[p] = result[q]

\* C2: a construction that raises propagates to its caller, inserts nothing,
\* leaves every entry of the registry as it was and releases the lock; the lock
\* is only ever held by a call inside the block, so a later call for the url is
\* not blocked, finds no entry and constructs afresh.
C2_FailureNotCached ==
    /\ [][\A p \in Callers :
            /\ (pc[p] = "construct" /\ pc'[p] = "raised") =>
                /\ error'[p] # ""
                /\ result'[p] = NoHandle
                /\ _instances' = _instances
                /\ handles' = handles
                /\ _lock' = NoCaller
            /\ (pc[p] = "check" /\ _instances[rpc_url[p]] = NoHandle /\ pc'[p] # "check") =>
                pc'[p] = "construct"
            /\ (pc[p] = "construct" /\ pc'[p] = "insert") =>
                /\ instance'[p] = Len(handles) + 1
                /\ handles'[instance'[p]].rpc_url = rpc_url[p]]_vars
    /\ [](\A u \in RpcUrls :
            /\ clients[u] = 0 => _instances[u] = NoHandle
            /\ _instances[u] # NoHandle => handles[_instances[u]].rpc_url = u)
    /\ [](_lock # NoCaller => InSection(_lock))

\* A construction for the url raised, and a later call constructed the handle.
C2_Witness ==
    \E p \in Callers :
        /\ failed[rpc_url[p]] > 0
        /\ pc[p] = "done"
        /\ result[p] # NoHandle
        /\ result[p] = _instances[rpc_url[p]]

\* C3: a call for a url already registered returns the registered handle and
\* changes neither the registry, nor any adapter object (its request_timeout is
\* the one of the call that created it), nor the number of clients.
C3_FirstWriterWins ==
    [][\A p \in Callers :
        /\ (pc[p] = "check" /\ _instances[rpc_url[p]] # NoHandle /\ pc'[p] # "check") =>
                /\ pc'[p] = "done"
                /\ result'[p] = _instances[rpc_url[p]]
                /\ _instances' = _instances
                /\ handles' = handles
                /\ clients' = clients
        /\ (pc[p] = "construct" /\ pc'[p] = "insert") =>
                handles'[instance'[p]].request_timeout = request_timeout[p]]_vars

\* A call with another request_timeout than the creating call's has returned
\* the existing handle.
C3_Witness ==
    \E p \in Callers :
        /\ pc[p] = "done"
        /\ result[p] # NoHandle
        /\ handles[result[p]].request_timeout # request_timeout[p]


(***************************************************************************)
(* Properties of the retry wrapper, checked under SpecRetry.               *)
(***************************************************************************)
Last(seq) == seq[Len(seq)]
Terminated == wpc \in {"returned", "exhausted", "fatal"}
TransientAt(i) == hist[i].raises /\ hist[i].exc.type \in TransientErrors
FatalAt(i) == hist[i].raises /\ hist[i].exc.type \notin TransientErrors
Instantaneous == \A i \in 1..Len(hist) : hist[i].dur = 0

\* C4: when the budget check finds remaining <= 0, the exception raised to the
\* caller is the very exception the last execution of func raised: a transient
\* one, of that attempt, neither an earlier one nor a made-up timeout.
C4_LastErrorFidelity ==
    wpc = "exhausted" =>
        /\ remaining <= 0
        /\ Len(hist) = attempt
        /\ TransientAt(attempt)
        /\ propagated = hist[attempt].exc
        /\ propagated.n = attempt

\* The budget ran out on a later attempt whose error differs from the first's.
C4_Witness ==
    /\ wpc = "exhausted"
    /\ attempt >= 2
    /\ hist[1].exc.type # propagated.type

\* C5: an exception outside the transient set ends the call at once: it is the
\* last execution of func, no sleep follows it, and that same exception reaches
\* the caller; raised by the first attempt, exactly one attempt is made.
C5_FatalShortCircuit ==
    \A i \in 1..Len(hist) :
        FatalAt(i) =>
            /\ wpc = "fatal"
            /\ i = Len(hist)
            /\ attempt = i
            /\ now = hist[i].at
            /\ propagated = hist[i].exc
            /\ value = ""
            /\ (FatalAt(1) => attempt = 1 /\ now = start + hist[1].dur)

\* The first attempt raised a fatal error.
C5_Witness ==
    /\ wpc = "fatal"
    /\ Len(hist) = 1
    /\ propagated.type \in FatalErrors

\* C6 as stated: func always raising a transient error, the wrapper makes
\* floor(B/d) + 1 (+-1) attempts, ends within one backoff interval of B, and
\* with B = 3 makes exactly 4 attempts.
C6_RetryBound_Original ==
    wpc = "exhausted" =>
        /\ attempt >= max_seconds \div Backoff
        /\ attempt <= max_seconds \div Backoff + 2
        /\ elapsed - max_seconds <= Backoff
        /\ max_seconds - elapsed <= Backoff
        /\ (max_seconds = 3 => attempt = 4)

\* C6 amended: func always raising a transient error, the wrapper makes at most
\* floor(B/1) + 1 attempts and raises no sooner than B seconds after the start;
\* when the executions of func take no time it makes exactly floor(B/1) + 1
\* attempts, the i-th ending (i-1) seconds after the start, and raises the last
\* one's error at elapsed = B (with B = 3: 4 attempts, at 0, 1, 2 and 3 s).
C6_RetryBound ==
    wpc = "exhausted" =>
        /\ attempt <= max_seconds \div Backoff + 1
        /\ elapsed >= max_seconds
        /\ Instantaneous =>
            /\ attempt = max_seconds \div Backoff + 1
            /\ elapsed = max_seconds
            /\ \A i \in 1..Len(hist) : hist[i].at - start = (i - 1) * Backoff
            /\ propagated = hist[attempt].exc
            /\ (max_seconds = 3 => attempt = 4 /\ Len(hist) = 4)

\* Budget 3, instantaneous attempts: the fourth attempt's error is raised.
C6_Witness ==
    /\ wpc = "exhausted"
    /\ max_seconds = 3
    /\ Instantaneous
    /\ attempt = 4
    /\ propagated.n = 4

\* C7 as stated: with budget >= 2 x backoff, a func that raises a transient
\* error on attempts 1 and 2 (and would succeed on attempt 3) does not end in
\* an error: the call ends with attempt 3's value after exactly 3 attempts.
C7_EventualSuccess_Original ==
    (/\ max_seconds >= 2 * Backoff
     /\ Terminated
     /\ Len(hist) <= 3
     /\ \A i \in 1..Len(hist) : IF i <= 2 THEN TransientAt(i) ELSE ~hist[i].raises) =>
        /\ wpc = "returned"
        /\ Len(hist) = 3
        /\ value = hist[3].value
        /\ propagated = NoExc

\* C7 amended: whenever attempts 1 and 2 raised transient errors and less than
\* the budget had elapsed when attempt 2 failed (which budget >= 2 x backoff
\* ensures only when the executions take no time), a third attempt follows,
\* and if it succeeds the call returns its value after exactly 3 attempts and
\* no error is propagated.
C7_EventualSuccess ==
    /\ (/\ Len(hist) = 2
        /\ TransientAt(1) /\ TransientAt(2)
        /\ \/ hist[2].at - start < max_seconds
           \/ max_seconds >= 2 * Backoff /\ Instantaneous) =>
            /\ wpc \in {"sleeping", "attempting"}
            /\ propagated = NoExc
    /\ (Len(hist) >= 3 /\ ~hist[3].raises) =>
            /\ wpc = "returned"
            /\ Len(hist) = 3
            /\ attempt = 3
            /\ value = hist[3].value
            /\ value # ""
            /\ propagated = NoExc

\* Two transient failures, then attempt 3 returned.
C7_Witness ==
    /\ wpc = "returned"
    /\ Len(hist) = 3
    /\ TransientAt(1) /\ TransientAt(2)
    /\ value = hist[3].value

\* C8: a call ends no later than budget + one backoff + the duration of its
\* last execution of func after its start, and an attempt after the first is
\* only made when the check after the previous one, computed from the clock at
\* that moment, found remaining > 0.
C8_OverrunBound ==
    /\ Terminated => now - start <= max_seconds + Backoff + Last(hist).dur
    /\ (wpc = "sleeping" \/ (wpc = "attempting" /\ attempt > 1)) =>
            /\ remaining > 0
            /\ Len(hist) >= 1
            /\ remaining = max_seconds - (Last(hist).at - start)

\* The call overran its budget: it ended after the deadline, after a retry.
C8_Witness ==
    /\ wpc = "exhausted"
    /\ attempt >= 2
    /\ now - start > max_seconds

\* The lines logged by the except clause that ended the call.
FinalLines ==
    IF wpc = "exhausted" THEN {log[Len(log) - 1], log[Len(log)]}
    ELSE IF wpc = "fatal" THEN {log[Len(log)]}
    ELSE {}

\* C9: whenever the wrapper raises to the caller (fatal error or exhausted
\* budget), the except clause that raises has logged a line carrying the rpc
\* url, the kind of the error and the attempt number.
C9_FailureContextLogged ==
    wpc \in {"exhausted", "fatal"} =>
        \E line \in FinalLines :
            /\ {"rpc_url", "exc_type", "attempt"} \subseteq line.carries
            /\ line.rpc_url = self.rpc_url
            /\ line.exc_type = propagated.type
            /\ line.attempt = attempt

\* C10: the budget check comes before the retry line: no "Retrying" line is
\* logged for the attempt that exhausts the budget, so every such line is
\* followed by a sleep and a further attempt.
C10_NoRetryLineOnExhaustion ==
    wpc = "exhausted" =>
        \A i \in 1..Len(log) :
            log[i].text = "Web3 error. Retrying" => log[i].attempt < attempt

\* The state of the retry session: ATTEMPTING covers the execution of func and
\* the sleep that follows a transient error with budget left.
SessionState(w) ==
    CASE w \in {"attempting", "sleeping"} -> "ATTEMPTING"
      [] w = "returned" -> "SUCCESS"
      [] w = "exhausted" -> "EXHAUSTED"
      [] w = "fatal" -> "FATAL"
      [] OTHER -> "NONE"

\* C11: a session starts ATTEMPTING with attempt = 1; an execution of func
\* leads to SUCCESS when it returns, stays ATTEMPTING on a transient error with
\* remaining > 0 (then attempt grows by exactly 1 before func runs again), to
\* EXHAUSTED on a transient error with remaining <= 0, to FATAL on any other
\* error; func runs only in ATTEMPTING, and SUCCESS, EXHAUSTED and FATAL are
\* never left.
C11_SessionStateMachine ==
    /\ [][/\ (wpc = "idle" /\ wpc' # "idle") =>
                /\ wpc' = "attempting"
                /\ attempt' = 1
                /\ start' = now
                /\ hist' = << >>
          /\ wpc = "attempting" =>
                /\ Len(hist') = Len(hist) + 1
                /\ remaining' = IF TransientAt(Len(hist))'
                                THEN max_seconds - (now' - start) ELSE remaining
                /\ attempt' = attempt
                /\ \/ ~Last(hist').raises /\ SessionState(wpc') = "SUCCESS"
                   \/ TransientAt(Len(hist))' /\ remaining' > 0 /\ wpc' = "sleeping"
                   \/ TransientAt(Len(hist))' /\ remaining' <= 0
                        /\ SessionState(wpc') = "EXHAUSTED"
                   \/ FatalAt(Len(hist))' /\ SessionState(wpc') = "FATAL"
          /\ wpc = "sleeping" =>
                /\ wpc' = "attempting"
                /\ attempt' = attempt + 1
                /\ hist' = hist
          /\ SessionState(wpc) \in {"SUCCESS", "EXHAUSTED", "FATAL"} =>
                /\ wpc' = wpc
                /\ hist' = hist
                /\ attempt' = attempt
          /\ hist' # hist => wpc = "attempting"]_vars
    /\ [](/\ SessionState(wpc) # "NONE" =>
                /\ attempt >= 1
                /\ attempt = Len(hist) + (IF wpc = "attempting" THEN 1 ELSE 0)
          /\ wpc = "returned" => ~Last(hist).raises
          /\ wpc = "exhausted" => TransientAt(Len(hist)) /\ remaining <= 0
          /\ wpc = "fatal" => FatalAt(Len(hist)))

\* Two ATTEMPTING -> ATTEMPTING steps, then ATTEMPTING -> FATAL on attempt 3.
C11_Witness ==
    /\ wpc = "fatal"
    /\ attempt = 3
    /\ TransientAt(1) /\ TransientAt(2)
    /\ FatalAt(3)

ReturnedFalseAt(i) ==
    hist[i].raises /\ hist[i].exc.msg = "is_connected() returned False"

=============================================================================
